---- MODULE Spec2Model ----
(***************************************************************************)
(* Breadth-first (Lee) shortest path search of python_pathfinding:         *)
(* find_shortest_path of pathfinding.py / Boi_pathfinding.py, with the     *)
(* progress reporting it drives (gui_update, print_path).                  *)
(*                                                                         *)
(* A cell is <<x, y>>, x the column and y the row, both 0-based as in the  *)
(* source; mat[y][x] of the source is PyGet(PyGet(mat, y), x) here.        *)
(***************************************************************************)
EXTENDS Integers, Sequences, FiniteSets, TLC

VARIABLES
    mat,                    \* the maze handed to find_shortest_path
    start_point,            \* <<sx, sy>>
    end_point,              \* <<ex, ey>>
    print_progress,         \* argument print_progress
    canvas,                 \* TRUE iff a canvas was passed
    pc,                     \* position in find_shortest_path
    visited,                \* local: the visited overlay
    q,                      \* local: the deque, as node ids, front first
    nodes,                  \* every node tuple created so far; a node's id is its index
    cell,                   \* local: id of the node `cell` is bound to (0: unbound)
    min_dist,               \* local
    last_printed_distance,  \* local; NoDistance models None
    all_paths,              \* local: set of cells printed in console mode
    path,                   \* local
    moves,                  \* local
    result,                 \* what the call returned or raised
    maze_already_drawn,     \* module-level flag of pathfinding.py
    drawn,                  \* the `path` arguments of the gui_update calls, in order
    printed,                \* the `path` arguments of the print_path calls, in order
    calls,                  \* number of calls of find_shortest_path started
    prev_result,            \* result of the previous call
    window,                 \* the pygame window: "open", "quit" (its close button
                            \* was pressed, the QUIT event is waiting), "closed"
    dequeued,               \* history: ids of the nodes popleft returned in this call
    trace,                  \* history: cell, visited and q after every step of this call
    prev_trace,             \* history: trace of the previous call
    tracing                 \* history: whether this run keeps trace

vars == <<mat, start_point, end_point, print_progress, canvas, pc, visited, q,
          nodes, cell, min_dist, last_printed_distance, all_paths, path, moves,
          result, maze_already_drawn, drawn, printed, calls, prev_result,
          window, dequeued, trace, prev_trace, tracing>>

locals == <<visited, q, nodes, cell, min_dist, last_printed_distance, all_paths,
            path, moves>>

inputs == <<mat, start_point, end_point>>

reporting == <<maze_already_drawn, drawn, printed>>

points == <<start_point, end_point>>

history == <<dequeued, trace, prev_trace>>

----------------------------------------------------------------------------
(* Bounds of the model *)

MaxCols == 3
MaxRows == 2
MaxWalls == 1

----------------------------------------------------------------------------
(* Constants of the program *)

START == "S"
END == "E"
FREE == "."
WALL == "#"

Symbols == {START, END, FREE, WALL}

None == "None"

\* sys.maxsize (its value on a 32-bit build; any value above every distance
\* behaves alike)
maxsize == 2147483647

NoDistance == -1

\* possible_moves with the names of Right and Left exchanged
possible_moves_misnamed ==
    << [move |-> "Left",  dx |-> 1,  dy |-> 0],
       [move |-> "Down",  dx |-> 0,  dy |-> 1],
       [move |-> "Right", dx |-> -1, dy |-> 0],
       [move |-> "Up",    dx |-> 0,  dy |-> -1] >>

\* possible_moves with Down entered before Right
possible_moves_down_first ==
    << [move |-> "Down",  dx |-> 0,  dy |-> 1],
       [move |-> "Right", dx |-> 1,  dy |-> 0],
       [move |-> "Left",  dx |-> -1, dy |-> 0],
       [move |-> "Up",    dx |-> 0,  dy |-> -1] >>

\* the dict possible_moves, in its iteration (insertion) order
possible_moves ==
    << [move |-> "Right", dx |-> 1,  dy |-> 0],
       [move |-> "Down",  dx |-> 0,  dy |-> 1],
       [move |-> "Left",  dx |-> -1, dy |-> 0],
       [move |-> "Up",    dx |-> 0,  dy |-> -1] >>

----------------------------------------------------------------------------
(* Python list indexing: an index i of a list of length n is legal iff     *)
(* -n <= i < n, a negative one counting from the end; any other raises     *)
(* IndexError.                                                             *)

PyIndexOK(s, i) == (-Len(s) <= i) /\ (i < Len(s))

PyPos(s, i) == IF i >= 0 THEN i + 1 ELSE Len(s) + i + 1

PyGet(s, i) == s[PyPos(s, i)]

\* mat[y][x] raises IndexError
CellRaises(m, x, y) == ~PyIndexOK(m, y) \/ ~PyIndexOK(PyGet(m, y), x)

CellAt(m, x, y) == PyGet(PyGet(m, y), x)

\* visited[y][x] = True
SetVisited(v, x, y) ==
    [v EXCEPT ![PyPos(v, y)] = [@ EXCEPT ![PyPos(@, x)] = TRUE]]

\* `value == 0` of the base case: a cell holds a str symbol, and in Python no
\* str equals the int 0
PyEqZero(value) == value \notin Symbols

----------------------------------------------------------------------------
(* Results of a call *)

Running == [kind |-> "running", path |-> <<>>, moves |-> <<>>]

\* return None, None
ReturnNone == [kind |-> "none", path |-> <<>>, moves |-> <<>>]

\* return path, moves
ReturnPath(p, m) == [kind |-> "path", path |-> p, moves |-> m]

\* an exception (IndexError, pygame.error) leaves find_shortest_path
Raised == [kind |-> "raised", path |-> <<>>, moves |-> <<>>]

----------------------------------------------------------------------------
(* The inputs *)

Cells(c, r) == (0 .. c - 1) \X (0 .. r - 1)

\* the maze with walls W, S on the start point and E on the end point
MazeOf(c, r, W, s, e) ==
    [y \in 1 .. r |->
        [x \in 1 .. c |->
            IF <<x - 1, y - 1>> \in W THEN WALL
            ELSE IF <<x - 1, y - 1>> = s THEN START
            ELSE IF <<x - 1, y - 1>> = e THEN END
            ELSE FREE]]

WallSets(c, r) == {W \in SUBSET Cells(c, r) : Cardinality(W) <= MaxWalls}

\* the worked example of the maze description: rows "S..", "##.", "..E"
ExampleStart == <<0, 0>>
ExampleEnd == <<2, 2>>
ExampleMaze == MazeOf(3, 3, {<<0, 1>>, <<1, 1>>}, ExampleStart, ExampleEnd)

\* points one step outside a c x r grid, or inside it
Points(c, r) == (-1 .. c) \X (-1 .. r)

\* (print_progress, canvas given): off (the defaults), on with a canvas, on
\* with console output
Modes == {<<FALSE, FALSE>>, <<TRUE, TRUE>>, <<TRUE, FALSE>>}

Blank ==
    /\ pc = "call"
    /\ visited = <<>>
    /\ q = <<>>
    /\ nodes = <<>>
    /\ cell = 0
    /\ min_dist = maxsize
    /\ last_printed_distance = NoDistance
    /\ all_paths = {}
    /\ path = <<>>
    /\ moves = <<>>
    /\ result = Running
    /\ maze_already_drawn = FALSE
    /\ drawn = <<>>
    /\ printed = <<>>
    /\ calls = 1
    /\ prev_result = Running
    /\ window = "open"
    /\ dequeued = <<>>
    /\ trace = <<>>
    /\ prev_trace = <<>>

\* a rectangular maze of at most MaxCols x MaxRows cells with both points on
\* cells of it, or the worked example
InitInputs ==
    \/ \E c \in 1 .. MaxCols, r \in 1 .. MaxRows :
         \E W \in WallSets(c, r), s \in Cells(c, r), e \in Cells(c, r) :
            /\ mat = MazeOf(c, r, W, s, e)
            /\ start_point = s
            /\ end_point = e
    \/ /\ mat = ExampleMaze
       /\ start_point = ExampleStart
       /\ end_point = ExampleEnd

\* as InitInputs, and also: points that may lie outside the maze, a maze
\* without rows, a maze of one empty row
InitAnyInputs ==
    \/ InitInputs
    \/ \E c \in 1 .. MaxCols, r \in 1 .. MaxRows :
         \E W \in WallSets(c, r), s \in Points(c, r), e \in Points(c, r) :
            /\ mat = MazeOf(c, r, W, s, e)
            /\ start_point = s
            /\ end_point = e
    \/ /\ mat \in {<<>>, << <<>> >>}
       /\ start_point = <<0, 0>>
       /\ end_point = <<0, 0>>

InitMode ==
    \E m \in Modes :
        /\ print_progress = m[1]
        /\ canvas = m[2]

\* the defaults of the parameters: print_progress = False, canvas = None
InitDefaultMode ==
    /\ print_progress = FALSE
    /\ canvas = FALSE

\* the points main passes: the cell holding START and the cell holding END
InitMarked ==
    /\ InitInputs
    /\ PyGet(PyGet(mat, start_point[2]), start_point[1]) = START
    /\ PyGet(PyGet(mat, end_point[2]), end_point[1]) = END

Init == InitInputs /\ InitDefaultMode /\ Blank /\ tracing = TRUE

InitAny == InitAnyInputs /\ InitDefaultMode /\ Blank /\ tracing = TRUE

InitTwice == InitMarked /\ InitMode /\ Blank /\ tracing = FALSE

----------------------------------------------------------------------------
(* find_shortest_path *)

sx == start_point[1]
sy == start_point[2]
ex == end_point[1]
ey == end_point[2]

\* The base case `not mat or len(mat) == 0 or mat[sy][sx] == 0 or
\* mat[ey][ex] == 0`, evaluated left to right: "none" when it holds, "raised"
\* when an index raises before it is decided, "ok" when it does not hold.
BaseCase ==
    IF Len(mat) = 0 THEN "none"
    ELSE IF CellRaises(mat, sx, sy) THEN "raised"
    ELSE IF PyEqZero(CellAt(mat, sx, sy)) THEN "none"
    ELSE IF CellRaises(mat, ex, ey) THEN "raised"
    ELSE IF PyEqZero(CellAt(mat, ex, ey)) THEN "none"
    ELSE "ok"

\* the overlay of the previous call, when there is one, used again
StaleVisited ==
    IF visited = <<>>
    THEN [y \in 1 .. Len(mat) |-> [x \in 1 .. Len(mat[y]) |-> FALSE]]
    ELSE visited

\* [[False for _ in row] for row in mat]
FreshVisited == [y \in 1 .. Len(mat) |-> [x \in 1 .. Len(mat[y]) |-> FALSE]]

\* is_valid without the wall test
is_valid_through_walls(v, px, py) ==
    /\ py >= 0
    /\ py < Len(mat)
    /\ px >= 0
    /\ px < Len(PyGet(mat, py))
    /\ ~CellAt(v, px, py)

\* is_valid without the test of the overlay
is_valid_unmarked(v, px, py) ==
    /\ py >= 0
    /\ py < Len(mat)
    /\ px >= 0
    /\ px < Len(PyGet(mat, py))
    /\ CellAt(mat, px, py) # WALL

\* the nested function is_valid, reading the overlay v
is_valid(v, px, py) ==
    /\ py >= 0
    /\ py < Len(mat)
    /\ px >= 0
    /\ px < Len(PyGet(mat, py))
    /\ CellAt(mat, px, py) # WALL
    /\ ~CellAt(v, px, py)

\* the tuple (x, y, dist, move, None): the link to the previous cell is lost
NodeUnlinked(x, y, dist, move, prev) ==
    [x |-> x, y |-> y, dist |-> dist, move |-> move, prev |-> 0]

\* the tuple (x, y, dist, move, prev_cell); prev is the id of prev_cell, 0 for None
Node(x, y, dist, move, prev) ==
    [x |-> x, y |-> y, dist |-> dist, move |-> move, prev |-> prev]

\* the root node (sx, sy, 0, None, None)
RootNode == Node(sx, sy, 0, None, 0)

\* history: the node `cell` is bound to, the overlay and the queue
Snapshot(ns, n, v, queue) ==
    [cell |-> ns[n], visited |-> v, q |-> [i \in 1 .. Len(queue) |-> ns[queue[i]]]]

\* history: the trace tr with one more snapshot, in a run that keeps trace
Record(tr, snap) == IF tracing THEN Append(tr, snap) ELSE tr

\* q.appendleft(n): the new node goes to the front of the queue
EnqueueFront(st, n) ==
    [st EXCEPT !.nodes = Append(@, n), !.q = <<Len(st.nodes) + 1>> \o @]

\* q.append(n) for a newly made node n: st is [visited, q, nodes]
Enqueue(st, n) ==
    [st EXCEPT !.nodes = Append(@, n), !.q = Append(@, Len(st.nodes) + 1)]

\* q.pop(): the newest node first
PopRight(queue) ==
    [front |-> queue[Len(queue)], rest |-> SubSeq(queue, 1, Len(queue) - 1)]

\* q.popleft()
PopLeft(queue) == [front |-> Head(queue), rest |-> Tail(queue)]

\* one pass of `for move, (dx, dy) in possible_moves.items()` for the node with
\* id n, from the i-th move on
RECURSIVE ExpandMoves(_, _, _)
ExpandMoves(i, n, st) ==
    IF i > Len(possible_moves) THEN st
    ELSE
        LET m == possible_moves[i]
            nx == st.nodes[n].x + m.dx
            ny == st.nodes[n].y + m.dy
        IN  IF is_valid(st.visited, nx, ny)
            THEN ExpandMoves(i + 1, n,
                    Enqueue([st EXCEPT !.visited = SetVisited(@, nx, ny)],
                            Node(nx, ny, st.nodes[n].dist + 1, m.move, n)))
            ELSE ExpandMoves(i + 1, n, st)

\* the destination test with the coordinates of the end point exchanged
IsDestinationSwapped(n) == nodes[n].x = ey /\ nodes[n].y = ex

\* the test `x == ex and y == ey` on the node with id n
IsDestination(n) == nodes[n].x = ex /\ nodes[n].y = ey

\* list.append(item)
InsertBack(list, item) == list \o <<item>>

\* moves.insert(0, move) / path.insert(0, (x, y))
InsertFront(list, item) == <<item>> \o list

\* AfterLoop with the path starting from the start point
AfterLoopFromStart(md) ==
    IF md = maxsize
    THEN /\ result' = ReturnNone
         /\ pc' = "done"
         /\ UNCHANGED <<path, moves>>
    ELSE /\ path' = <<start_point>>
         /\ moves' = <<>>
         /\ pc' = "walk"
         /\ UNCHANGED result

\* Lines 314-318: after the loop, with min_dist = md
AfterLoop(md) ==
    IF md = maxsize
    THEN /\ result' = ReturnNone
         /\ pc' = "done"
         /\ UNCHANGED <<path, moves>>
    ELSE /\ path' = <<>>
         /\ moves' = <<>>
         /\ pc' = "walk"
         /\ UNCHANGED result

\* Lines 229-277: the base case and the set-up of the search
Call ==
    /\ pc = "call"
    /\ IF BaseCase = "ok"
       THEN /\ visited' = SetVisited(FreshVisited, sx, sy)
            /\ nodes' = <<RootNode>>
            /\ cell' = 1
            /\ q' = <<1>>
            /\ min_dist' = maxsize
            /\ last_printed_distance' = NoDistance
            /\ all_paths' = {}
            /\ pc' = "loop"
            /\ trace' = Record(<<>>, Snapshot(nodes', cell', visited', q'))
            /\ UNCHANGED <<path, moves, result>>
       ELSE /\ result' = IF BaseCase = "raised" THEN Raised ELSE ReturnNone
            /\ pc' = "done"
            /\ trace' = <<>>
            /\ UNCHANGED locals
    /\ dequeued' = <<>>
    /\ UNCHANGED <<tracing, inputs, print_progress, canvas, reporting, calls, prev_result,
                   window, prev_trace>>

\* The outcomes of one gui_update call: the value it returns (that of
\* gui_handle_events, lines 47-78: False when the window was closed, and then
\* pygame.quit() has been called), whether it raises, and the window after it
GuiOutcomes ==
    CASE window = "open" -> {[run |-> TRUE, raised |-> FALSE, window |-> "open"]}
      [] window = "quit" -> {[run |-> FALSE, raised |-> FALSE, window |-> "closed"]}
      [] window = "closed" ->
            \* a call into pygame after pygame.quit(): it returns, or pygame
            \* raises an error that leaves find_shortest_path
            {[run |-> TRUE, raised |-> FALSE, window |-> "closed"],
             [run |-> FALSE, raised |-> TRUE, window |-> "closed"]}

\* the search stops when gui_update returns False
StopWhenClosed(run) == run

\* Line 290: the value gui_update returns is discarded, the search goes on
ContinueAfterReport(run) == TRUE

\* the path argument without the move
GuiPathNoMove(n) == <<nodes[n].x, nodes[n].y, None>>

\* Line 290: path=(x, y, move), for the node with id n
GuiPath(n) == <<nodes[n].x, nodes[n].y, nodes[n].move>>

\* Line 201: a cell of the path wrapped in colour codes
Paint(sym) ==
    CASE sym = START -> "[S]"
      [] sym = END -> "[E]"
      [] sym = FREE -> "[.]"
      [] sym = WALL -> "[#]"
      [] OTHER -> "[[]]"

\* Lines 200-201: maze[y][x] = colour + maze[y][x] + reset, for x, y in path
PaintedMaze(m, p) ==
    [y \in 1 .. Len(m) |->
        [x \in 1 .. Len(m[y]) |->
            IF \E c \in p : PyPos(m, c[2]) = y /\ PyPos(m[y], c[1]) = x
            THEN Paint(m[y][x])
            ELSE m[y][x]]]

\* print_path painting the maze it was handed
print_path_in_place(m, p) == PaintedMaze(m, p)

\* The caller's maze after print_path(m, p): line 194 rebinds the parameter
\* to copy.deepcopy(maze) and the painting goes to the copy
print_path(m, p) == m

\* Lines 283-297: popleft and the progress report of the dequeued node
Dequeue ==
    /\ pc = "loop"
    /\ q # <<>>
    /\ LET n == PopLeft(q).front
           x == nodes[n].x
           y == nodes[n].y
       IN  /\ cell' = n
           /\ q' = PopLeft(q).rest
           /\ dequeued' = Append(dequeued, n)
           /\ trace' = Record(trace, Snapshot(nodes, n, visited, q'))
           /\ IF print_progress
              THEN IF canvas
                   THEN \* gui_update(canvas, mat, path=(x, y, move))
                        /\ maze_already_drawn' = TRUE
                        /\ drawn' = Append(drawn, GuiPath(n))
                        /\ \E o \in GuiOutcomes :
                            /\ window' = o.window
                            /\ IF o.raised
                               THEN pc' = "done" /\ result' = Raised
                               ELSE IF ContinueAfterReport(o.run)
                               THEN pc' = "visit" /\ UNCHANGED result
                               ELSE pc' = "done" /\ result' = ReturnNone
                        /\ UNCHANGED <<mat, all_paths, last_printed_distance, printed>>
                   ELSE /\ all_paths' = all_paths \cup {<<x, y>>}
                        /\ IF last_printed_distance # nodes[n].dist
                           THEN \* print_path(mat, all_paths, color=True)
                                /\ printed' = Append(printed, all_paths')
                                /\ mat' = print_path(mat, all_paths')
                                /\ last_printed_distance' = nodes[n].dist
                           ELSE UNCHANGED <<mat, printed, last_printed_distance>>
                        /\ pc' = "visit"
                        /\ UNCHANGED <<maze_already_drawn, drawn, window, result>>
              ELSE /\ pc' = "visit"
                   /\ UNCHANGED <<mat, all_paths, last_printed_distance, reporting,
                                  window, result>>
    /\ UNCHANGED <<tracing, points, print_progress, canvas, visited, nodes, min_dist,
                   path, moves, calls, prev_result, prev_trace>>

\* Lines 300-302 and 314-318: the destination was dequeued
Found ==
    /\ pc = "visit"
    /\ IsDestination(cell)
    /\ min_dist' = nodes[cell].dist
    /\ AfterLoop(nodes[cell].dist)
    /\ UNCHANGED <<tracing, inputs, print_progress, canvas, visited, q, nodes, cell,
                   last_printed_distance, all_paths, reporting, calls, prev_result,
                   window, history>>

\* Lines 306-311: enqueue the valid neighbours of the dequeued node
Expand ==
    /\ pc = "visit"
    /\ ~IsDestination(cell)
    /\ LET st == ExpandMoves(1, cell, [visited |-> visited, q |-> q, nodes |-> nodes])
       IN  /\ visited' = st.visited
           /\ q' = st.q
           /\ nodes' = st.nodes
    /\ pc' = "loop"
    /\ trace' = Record(trace, Snapshot(nodes', cell, visited', q'))
    /\ UNCHANGED <<tracing, inputs, print_progress, canvas, cell, min_dist,
                   last_printed_distance, all_paths, path, moves, result,
                   reporting, calls, prev_result, window, dequeued, prev_trace>>

\* `while q` ends with the queue empty, then lines 314-318
Exhausted ==
    /\ pc = "loop"
    /\ q = <<>>
    /\ AfterLoop(min_dist)
    /\ UNCHANGED <<tracing, inputs, print_progress, canvas, visited, q, nodes, cell, min_dist,
                   last_printed_distance, all_paths, reporting, calls, prev_result,
                   window, history>>

\* Lines 320-329: one step back along prev_cell
WalkBack ==
    /\ pc = "walk"
    /\ nodes[cell].prev # 0
    /\ moves' = InsertFront(moves, nodes[cell].move)
    /\ path' = InsertFront(path, <<nodes[cell].x, nodes[cell].y>>)
    /\ cell' = nodes[cell].prev
    /\ UNCHANGED <<tracing, inputs, print_progress, canvas, pc, visited, q, nodes, min_dist,
                   last_printed_distance, all_paths, result, reporting, calls,
                   prev_result, window, history>>

\* Lines 322-323: the walk reached the start cell
Return ==
    /\ pc = "walk"
    /\ nodes[cell].prev = 0
    /\ result' = ReturnPath(path, moves)
    /\ pc' = "done"
    /\ UNCHANGED <<tracing, inputs, print_progress, canvas, locals, reporting, calls,
                   prev_result, window, history>>

\* A second call on the same maze and points, later in the same process: the
\* module-level flag keeps its value, the locals of the first call are garbage.
Again ==
    /\ pc = "done"
    /\ result.kind # "raised"
    /\ calls = 1
    /\ calls' = calls + 1
    /\ prev_result' = result
    /\ result' = Running
    /\ pc' = "call"
    /\ \E m \in Modes :
          /\ print_progress' = m[1]
          /\ canvas' = m[2]
    /\ prev_trace' = trace
    /\ UNCHANGED <<tracing, inputs, locals, reporting, window, dequeued, trace>>

\* The user presses the close button of the window while a search reports to it
CloseWindow ==
    /\ pc \in {"loop", "visit"}
    /\ print_progress
    /\ canvas
    /\ window = "open"
    /\ window' = "quit"
    /\ UNCHANGED <<tracing, inputs, print_progress, canvas, pc, locals, result, reporting,
                   calls, prev_result, history>>

Next ==
    \/ Call
    \/ Dequeue
    \/ Found
    \/ Expand
    \/ Exhausted
    \/ WalkBack
    \/ Return

Spec == Init /\ [][Next]_vars

NextTwice == Next \/ Again

SpecTwice == InitTwice /\ [][NextTwice]_vars

SpecAny == InitAny /\ [][Next]_vars

\* a call without progress reporting, then a call with any reporting, during
\* which the window may be closed
InitReport == InitMarked /\ InitDefaultMode /\ Blank /\ tracing = TRUE

NextReport == NextTwice \/ CloseWindow

SpecReport == InitReport /\ [][NextReport]_vars

----------------------------------------------------------------------------
(* The maze as a graph, independently of the search: cells, free cells,    *)
(* 4-neighbours, the region reachable from a set and the distance.         *)

InGrid(p) ==
    /\ p[2] >= 0
    /\ p[2] < Len(mat)
    /\ p[1] >= 0
    /\ p[1] < Len(mat[p[2] + 1])

IsFree(p) == InGrid(p) /\ mat[p[2] + 1][p[1] + 1] # WALL

IsWall(p) == InGrid(p) /\ mat[p[2] + 1][p[1] + 1] = WALL

Displacement(move) ==
    CASE move = "Right" -> <<1, 0>>
      [] move = "Down" -> <<0, 1>>
      [] move = "Left" -> <<-1, 0>>
      [] move = "Up" -> <<0, -1>>

MoveNames == {"Right", "Down", "Left", "Up"}

Shift(p, move) == <<p[1] + Displacement(move)[1], p[2] + Displacement(move)[2]>>

FreeNeighbours(p) == {n \in {Shift(p, m) : m \in MoveNames} : IsFree(n)}

Grow(S) == S \cup UNION {FreeNeighbours(p) : p \in S}

RECURSIVE Region(_)
Region(S) == LET G == Grow(S) IN IF G = S THEN S ELSE Region(G)

\* the number of steps of a shortest walk from S to d, for d in Region(S)
RECURSIVE RefDist(_, _, _)
RefDist(S, d, k) == IF d \in S THEN k ELSE RefDist(Grow(S), d, k + 1)

\* both points are cells of the maze and neither is a wall
ValidInput == Len(mat) > 0 /\ IsFree(start_point) /\ IsFree(end_point)

Reachable == ValidInput /\ end_point \in Region({start_point})

Unreachable == ValidInput /\ end_point \notin Region({start_point})

\* the cells the overlay marks
VisitedCells ==
    {p \in UNION {{<<x - 1, y - 1>> : x \in 1 .. Len(visited[y])} : y \in 1 .. Len(visited)} :
        visited[p[2] + 1][p[1] + 1]}

\* the cells of the nodes with ids in S
CellsOf(S) == {<<nodes[n].x, nodes[n].y>> : n \in S}

QueueIds == {q[i] : i \in 1 .. Len(q)}

Succeeded == pc = "done" /\ result.kind = "path"

----------------------------------------------------------------------------
(* The reference search: level by level, each level in the order its cells *)
(* were discovered, neighbours tried in the order Right, Down, Left, Up,   *)
(* the first discoverer of a cell its parent.                              *)

RefOrder == <<"Right", "Down", "Left", "Up">>

\* acc = [order, seen, tree]: the next level so far, the cells discovered,
\* and for each discovered cell but the root [cell, from, move]
RECURSIVE RefScan(_, _, _)
RefScan(level, k, acc) ==
    IF k > Len(level) * Len(RefOrder) THEN acc
    ELSE
        LET p == level[((k - 1) \div Len(RefOrder)) + 1]
            m == RefOrder[((k - 1) % Len(RefOrder)) + 1]
            n == Shift(p, m)
        IN  IF IsFree(n) /\ n \notin acc.seen
            THEN RefScan(level, k + 1,
                    [order |-> Append(acc.order, n),
                     seen |-> acc.seen \cup {n},
                     tree |-> acc.tree \cup {[cell |-> n, from |-> p, move |-> m]}])
            ELSE RefScan(level, k + 1, acc)

RECURSIVE RefTree(_, _, _)
RefTree(level, seen, tree) ==
    IF level = <<>> THEN tree
    ELSE LET acc == RefScan(level, 1, [order |-> <<>>, seen |-> seen, tree |-> tree])
         IN  RefTree(acc.order, acc.seen, acc.tree)

RECURSIVE RefMovesTo(_, _)
RefMovesTo(tree, c) ==
    IF c = start_point THEN <<>>
    ELSE LET e == CHOOSE e \in tree : e.cell = c
         IN  Append(RefMovesTo(tree, e.from), e.move)

RefMoves == RefMovesTo(RefTree(<<start_point>>, {start_point}, {}), end_point)

----------------------------------------------------------------------------
(* Properties of find_shortest_path *)

\* C1: whenever the destination is reachable from the source through non-wall
\* cells, the call returns a path, and the number of moves returned is the
\* distance from source to destination in the 4-neighbour graph of the maze.
C1_ShortestLength ==
    (pc = "done" /\ Reachable) =>
        /\ result.kind = "path"
        /\ Len(result.moves) = RefDist({start_point}, end_point, 0)

\* a search that had to go round a wall returned a path of three moves or more
C1_Witness ==
    /\ Succeeded
    /\ Reachable
    /\ \E p \in Cells(MaxCols, MaxRows) : IsWall(p)
    /\ Len(result.moves) >= 3
    /\ Len(result.moves) > (IF sx > ex THEN sx - ex ELSE ex - sx)
                            + (IF sy > ey THEN sy - ey ELSE ey - sy)

\* C2 as stated: on every successful search the returned moves are one fewer
\* than the returned path
C2_Original_OneFewerMove ==
    Succeeded => Len(result.moves) = Len(result.path) - 1

\* C2 as amended: on every successful search the returned moves are as many
\* as the cells of the returned path (the path leaves out the source cell)
C2_MovesParallelPath ==
    Succeeded => Len(result.moves) = Len(result.path)

C2_Witness == Succeeded /\ Len(result.path) >= 2

\* C3 as stated: on every successful search the first element of the returned
\* path is the source and the last is the destination
C3_Original_SourceFirst ==
    Succeeded =>
        /\ result.path # <<>>
        /\ result.path[1] = start_point
        /\ result.path[Len(result.path)] = end_point

\* C3 as amended: on every successful search the returned path leaves out the
\* source and runs from the cell reached by the first move to the destination
\* inclusive: it is empty when source and destination are the same cell, and
\* otherwise its first element is the source displaced by the first move, its
\* last element is the destination, and the source does not occur in it
C3_PathAfterSource ==
    Succeeded =>
        IF start_point = end_point
        THEN result.path = <<>>
        ELSE /\ result.path # <<>>
             /\ result.moves # <<>>
             /\ result.moves[1] \in MoveNames
             /\ result.path[1] = Shift(start_point, result.moves[1])
             /\ result.path[Len(result.path)] = end_point
             /\ \A i \in 1 .. Len(result.path) : result.path[i] # start_point

C3_Witness ==
    /\ Succeeded
    /\ Len(result.path) >= 2
    /\ result.path[Len(result.path)] = end_point

\* C4: on every successful search every two consecutive cells path[i-1],
\* path[i] of the returned path differ by one of the four unit displacements,
\* and the move at index i is the name of that displacement
C4_MovesMatchSteps ==
    Succeeded =>
        \A i \in 2 .. Len(result.path) :
            /\ i <= Len(result.moves)
            /\ result.moves[i] \in MoveNames
            /\ result.path[i] = Shift(result.path[i - 1], result.moves[i])

\* a returned path of three cells or more that turns a corner
C4_Witness ==
    /\ Succeeded
    /\ Len(result.path) >= 3
    /\ \E i \in 2 .. Len(result.moves) : result.moves[i] # result.moves[i - 1]

\* C5 as stated: with source and destination the same non-wall cell the call
\* returns path [source] and no moves, and enqueues no neighbour
C5_Original_PathIsSource ==
    (ValidInput /\ start_point = end_point) =>
        /\ Len(nodes) <= 1
        /\ pc = "done" => result = ReturnPath(<<start_point>>, <<>>)

\* C5 as amended: with source and destination the same non-wall cell the call
\* returns the empty path and no moves (a success, not None), and enqueues no
\* neighbour of the source
C5_SameCellEmptyPath ==
    (ValidInput /\ start_point = end_point) =>
        /\ Len(nodes) <= 1
        /\ pc = "done" => result = ReturnPath(<<>>, <<>>)

\* the call on equal points, with a free neighbour to go to, has returned
C5_Witness ==
    /\ pc = "done"
    /\ ValidInput
    /\ start_point = end_point
    /\ FreeNeighbours(start_point) # {}
    /\ q = <<>>
    /\ result.kind = "path"

\* C6: when both points are non-wall cells and no walk through non-wall cells
\* joins them, the call returns None, None, and in every state of the search
\* every cell marked visited and every cell in the queue is in the region
\* reachable from the source
C6_UnreachableNotFound ==
    (pc # "call" /\ ValidInput) =>
        LET region == Region({start_point})
        IN  end_point \notin region =>
                /\ pc = "done" => result = ReturnNone
                /\ VisitedCells \subseteq region
                /\ CellsOf(QueueIds) \subseteq region

\* a search for an unreachable destination ended after visiting the region
C6_Witness ==
    /\ pc = "done"
    /\ Unreachable
    /\ result = ReturnNone
    /\ VisitedCells = Region({start_point})

\* C7: when the source or the destination is a wall cell, the call returns
\* None, None and expands nothing: the overlay is never written, no node is
\* made, dequeued or enqueued
C7_WallEndpointRejected ==
    (IsWall(start_point) \/ IsWall(end_point)) =>
        /\ pc = "done" => result = ReturnNone
        /\ VisitedCells = {}
        /\ nodes = <<>>
        /\ q = <<>>

\* C8: when the maze is empty or a point lies outside it, the call returns
\* None, None; it never ends in a raised error
C8_BadInputReturned ==
    (Len(mat) = 0 \/ ~InGrid(start_point) \/ ~InGrid(end_point)) =>
        /\ result.kind # "raised"
        /\ pc = "done" => result = ReturnNone

\* C9: the second of two calls on the same maze and points returns what the
\* first returned, whatever the progress reporting of either, and sees nothing
\* of the first: its overlay marks exactly the cells of the nodes it made, and
\* its queue holds only nodes it made
C9_SecondCallSame ==
    calls = 2 =>
        /\ pc = "done" => result = prev_result
        /\ pc # "call" =>
            /\ VisitedCells = CellsOf(1 .. Len(nodes))
            /\ QueueIds \subseteq 1 .. Len(nodes)
            /\ nodes[1] = RootNode

\* a second call, after one that drew on the canvas, returned a path
C9_Witness ==
    /\ calls = 2
    /\ Succeeded
    /\ maze_already_drawn
    /\ Len(result.moves) >= 2
    /\ result = prev_result

\* C10: the moves returned are those of the reference search (neighbours in
\* the order Right, Down, Left, Up, levels in discovery order, first
\* discoverer as parent); on the worked example they are Right, Right, Down,
\* Down
C10_TieBreak ==
    (pc = "done" /\ Reachable) =>
        /\ result.moves = RefMoves
        /\ (mat = ExampleMaze /\ start_point = ExampleStart /\ end_point = ExampleEnd)
            => result.moves = <<"Right", "Right", "Down", "Down">>

\* a call with two shortest walks to choose from (Right then Down, or Down
\* then Right) returned Right then Down
C10_Witness ==
    /\ Succeeded
    /\ start_point = <<0, 0>>
    /\ end_point = <<1, 1>>
    /\ IsFree(<<1, 0>>)
    /\ IsFree(<<0, 1>>)
    /\ result.moves = <<"Right", "Down">>

----------------------------------------------------------------------------
(* Properties of the progress reporting and of the search as it runs *)

\* the i-th node dequeued in this call
DequeuedNode(i) == nodes[dequeued[i]]

DequeuedCell(i) == <<DequeuedNode(i).x, DequeuedNode(i).y>>

\* the positions in dequeued of the first node of every distance
LevelStarts ==
    {i \in 1 .. Len(dequeued) :
        i = 1 \/ DequeuedNode(i).dist # DequeuedNode(i - 1).dist}

\* the reporter calls made so far: gui_update with a canvas, print_path without
Reports == IF canvas THEN drawn ELSE printed

C12_ReportingNoEffect ==
    (calls = 2 /\ pc # "call") =>
        /\ Len(trace) <= Len(prev_trace)
        /\ \A i \in 1 .. Len(trace) : trace[i] = prev_trace[i]
        /\ (pc = "done" /\ result.kind # "raised") =>
                /\ trace = prev_trace
                /\ result = prev_result

\* a search reporting to a canvas had its window closed on the way, so that
\* gui_update returned False, and returned the path of the search without
\* reporting
C12_Witness ==
    /\ calls = 2
    /\ print_progress
    /\ canvas
    /\ window = "closed"
    /\ pc = "done"
    /\ result.kind = "path"
    /\ result = prev_result
    /\ Len(dequeued) >= 3

\* rows x cols of the maze
GridSize == IF Len(mat) = 0 THEN 0 ELSE Len(mat) * Len(mat[1])

\* a started search is never stuck: until it has finished it can take a
\* step, it has dequeued at most rows x cols nodes, and the walk back has at
\* most one cell per node left to insert
SearchProgresses ==
    /\ pc # "done" => ENABLED Next
    /\ pc # "call" => Len(dequeued) <= GridSize
    /\ pc = "walk" => Len(path) < Len(nodes)

\* a finished search has returned a path with its moves, or None, None
SearchReturned ==
    pc = "done" => result.kind \in {"path", "none"}

\* C13: for every maze and every start and end point, a started search
\* finishes, after at most rows x cols dequeues and a walk back that reaches
\* the root, and it finishes by returning: a path, or None, None for not found
\* or for invalid input
C13_AlwaysFinishes == SearchProgresses /\ SearchReturned

\* C14: nodes leave the queue in level order: every dequeued node has a
\* distance greater than or equal to that of the node dequeued before it, and
\* at every moment the distances in the queue are non-decreasing from front to
\* back and the last exceeds the first by at most 1
C14_LevelOrder ==
    pc # "call" =>
        /\ \A i \in 2 .. Len(dequeued) :
                DequeuedNode(i).dist >= DequeuedNode(i - 1).dist
        /\ \A i \in 2 .. Len(q) : nodes[q[i]].dist >= nodes[q[i - 1]].dist
        /\ q # <<>> => nodes[q[Len(q)]].dist - nodes[q[1]].dist <= 1

\* after several dequeues the queue holds nodes of two distances
C14_Witness ==
    /\ pc = "loop"
    /\ Len(dequeued) >= 3
    /\ Len(q) >= 2
    /\ nodes[q[Len(q)]].dist = nodes[q[1]].dist + 1

\* the ids of the nodes dequeued so far in this call
DequeuedIds == {dequeued[i] : i \in 1 .. Len(dequeued)}

\* C15: a cell is marked visited exactly when it is enqueued and never by a
\* dequeue: in every state of a search the marked cells are the cells of the
\* nodes made so far, every node made is in the queue or has been dequeued,
\* no cell has two nodes, no node is in the queue twice or in the queue after
\* its dequeue, and no node is dequeued (and expanded) twice
C15_VisitedIffEnqueued ==
    pc # "call" =>
        /\ VisitedCells = CellsOf(1 .. Len(nodes))
        /\ QueueIds \cup DequeuedIds = 1 .. Len(nodes)
        /\ QueueIds \cap DequeuedIds = {}
        /\ \A i, j \in 1 .. Len(nodes) :
                i # j => <<nodes[i].x, nodes[i].y>> # <<nodes[j].x, nodes[j].y>>
        /\ \A i, j \in 1 .. Len(q) : i # j => q[i] # q[j]
        /\ \A i, j \in 1 .. Len(dequeued) : i # j => dequeued[i] # dequeued[j]
        /\ pc = "visit" =>
                trace[Len(trace)].visited = trace[Len(trace) - 1].visited

\* a search has made five nodes or more, each for a marked cell of its own;
\* one of them is still in the queue, marked but not yet dequeued
C15_Witness ==
    /\ pc = "visit"
    /\ Len(nodes) >= 5
    /\ Len(q) = 1
    /\ Cardinality(VisitedCells) = Len(nodes)
    /\ \E p \in VisitedCells : p \notin CellsOf(DequeuedIds)

\* C16: the search never writes to the maze: no step of a call, with or
\* without progress reporting, the console printing of print_path included,
\* changes a cell of mat, so that after the call every cell holds the symbol
\* it held before
C16_MazeUnchanged == [][mat' = mat]_vars

\* a search printing its progress to the console has called print_path
\* twice or more and has returned a path
C16_Witness ==
    /\ pc = "done"
    /\ print_progress
    /\ ~canvas
    /\ Len(printed) >= 2
    /\ result.kind = "path"
    /\ \A y \in 1 .. Len(mat) : \A x \in 1 .. Len(mat[y]) : mat[y][x] \in Symbols

\* the ids met when following prev from node n, n first, in at most k steps
RECURSIVE ParentChain(_, _)
ParentChain(n, k) ==
    IF n = 0 \/ k = 0 THEN <<>>
    ELSE <<n>> \o ParentChain(nodes[n].prev, k - 1)

\* C17: in every state of a search the nodes form a tree rooted at the
\* source node: the first node is the source at distance 0 with move None and
\* no previous cell, and it is the only such node; every other node has a move
\* of the table, a previous node made before it whose distance is one less,
\* and the cell its move leads to from the previous node's cell; following
\* prev from a node reaches the root in exactly dist steps, through cells that
\* all differ
C17_ParentTree ==
    pc # "call" =>
        /\ nodes[1] = [x |-> sx, y |-> sy, dist |-> 0, move |-> None, prev |-> 0]
        /\ \A n \in 2 .. Len(nodes) :
            /\ nodes[n].move \in MoveNames
            /\ nodes[n].prev \in 1 .. (n - 1)
            /\ nodes[nodes[n].prev].dist = nodes[n].dist - 1
            /\ <<nodes[n].x, nodes[n].y>>
                  = Shift(<<nodes[nodes[n].prev].x, nodes[nodes[n].prev].y>>, nodes[n].move)
            /\ LET chain == ParentChain(n, Len(nodes) + 1)
               IN  /\ Len(chain) = nodes[n].dist + 1
                   /\ chain[Len(chain)] = 1
                   /\ Cardinality(CellsOf({chain[i] : i \in 1 .. Len(chain)})) = Len(chain)

\* a search has made a node three moves or more away from the source
C17_Witness ==
    /\ pc = "loop"
    /\ \E n \in 1 .. Len(nodes) :
        /\ nodes[n].dist >= 3
        /\ Len(ParentChain(n, Len(nodes) + 1)) = nodes[n].dist + 1

====
